---- MODULE Spec2Model ----
(***************************************************************************)
(* Model of the macro_pub crate.                                           *)
(*   - src/src/lib.rs : the #[macro_pub] attribute, a parser/rewriter of   *)
(*     a flat token sequence (specification Spec).                         *)
(*   - src/build.rs   : the build script and its vendored autocfg prober   *)
(*     (specifications BuildSpec and ProbeSpec).                           *)
(***************************************************************************)
EXTENDS Integers, Sequences, FiniteSets, TLC

(***************************************************************************)
(* Bounds of the model.                                                    *)
(***************************************************************************)
MaxDefLen == 4
MaxAttrs == 1
MaxTrail == 1
MaxArmsLen == 2
MaxFlagsLen == 2
NumCallers == 2
MaxCalls == 2

(***************************************************************************)
(* proc_macro token trees (lib.rs:126).  Spans are not modelled: the code  *)
(* never inspects them.                                                    *)
(***************************************************************************)
Ident(s) == [k |-> "Ident", s |-> s]
Punct(c, sp) == [k |-> "Punct", c |-> c, sp |-> sp]
Group(d, ts) == [k |-> "Group", d |-> d, ts |-> ts]
Literal(s) == [k |-> "Literal", s |-> s]
NoToken == [k |-> "None"]

\* All sequences over S of length at most n.
BoundedSeq(S, n) == UNION {[1..m -> S] : m \in 0..n}

(***************************************************************************)
(* The inputs of macro_pub that the model enumerates.                      *)
(***************************************************************************)
DocAttr == Group("Bracket", <<Ident("doc")>>)
Pound == Punct("#", "Alone")
Bang == Punct("!", "Alone")
SimpleArms == Group("Brace", <<Punct(";", "Alone")>>)

\* Tokens of the definition part of an item: every kind the parser tests for
\* and one that fails each test.
TopTok == {Ident("macro_rules"), Ident("m"), Pound, Bang, DocAttr, SimpleArms}

\* Tokens of a macro body.
ArmTok == {Punct(";", "Alone"), Punct(";", "Joint"), Punct("=", "Joint"),
           Group("Parenthesis", <<Punct(";", "Alone")>>)}

ArmsSet == BoundedSeq(ArmTok, MaxArmsLen)

TrailTok == {Ident("m"), Punct(";", "Alone")}

RECURSIVE AttrPrefix(_)
AttrPrefix(n) == IF n = 0 THEN <<>> ELSE <<Pound, DocAttr>> \o AttrPrefix(n - 1)

AttrPrefixes == {AttrPrefix(n) : n \in 0..MaxAttrs}

Trailings == BoundedSeq(TrailTok, MaxTrail)

\* Every short token sequence, well-formed or not.
AnyItems == BoundedSeq(TopTok, MaxDefLen)

\* Well-formed definitions with leading attributes, every body of ArmsSet and
\* trailing tokens.
MacroItems == {pre \o <<Ident("macro_rules"), Bang, Ident("m"), Group("Brace", arms)>> \o post :
                  pre \in AttrPrefixes, arms \in ArmsSet, post \in Trailings}

Items == AnyItems \cup MacroItems

\* Items passed to a call that follows another one, besides the same item again.
FollowUps == {<<Pound, DocAttr, Ident("macro_rules"), Bang, Ident("m"), SimpleArms>>,
              <<Ident("macro_rules"), Bang, Ident("m"), SimpleArms, Ident("m")>>,
              <<Pound, DocAttr, Ident("m")>>}

\* The attribute's argument: none or `crate`.
AttrArgs == {<<>>, <<Ident("crate")>>}

(***************************************************************************)
(* item.to_string() and xxh3_128 (lib.rs:132).  The serialisation is a     *)
(* sequence of atoms; the digest is a polynomial hash of the atoms' codes, *)
(* truncated to HashBits bits.                                             *)
(***************************************************************************)
HashBits == 16

Atoms == <<" ", "macro_rules", "m", "doc", "#", "!", ";", "=",
           "[", "]", "{", "}", "(", ")">>

AtomCode(w) == CHOOSE i \in 1..Len(Atoms) : Atoms[i] = w

OpenOf(d) == CASE d = "Bracket" -> "[" [] d = "Brace" -> "{" [] OTHER -> "("
CloseOf(d) == CASE d = "Bracket" -> "]" [] d = "Brace" -> "}" [] OTHER -> ")"

RECURSIVE to_string(_)
to_string(ts) ==
    IF ts = <<>> THEN <<>>
    ELSE LET t == Head(ts)
             s == CASE t.k = "Ident" -> <<t.s, " ">>
                    [] t.k = "Literal" -> <<t.s, " ">>
                    [] t.k = "Punct" -> IF t.sp = "Joint" THEN <<t.c>> ELSE <<t.c, " ">>
                    [] t.k = "Group" -> <<OpenOf(t.d)>> \o to_string(t.ts) \o <<CloseOf(t.d), " ">>
         IN s \o to_string(Tail(ts))

RECURSIVE Xxh3(_, _)
Xxh3(h, bytes) ==
    IF bytes = <<>> THEN h
    ELSE Xxh3((h * 31 + AtomCode(Head(bytes))) % (2 ^ HashBits), Tail(bytes))

xxh3_128(bytes) == Xxh3(7, bytes)

\* lib.rs:132: the digest of the whole item as it was passed in.
ItemHash(it) == xxh3_128(to_string(it))

(***************************************************************************)
(* Token streams that the code parses from string literals.                *)
(***************************************************************************)
\* lib.rs:136
CompileError ==
    <<Ident("compile_error"), Bang,
      Group("Brace", <<Literal("#[macro_pub] must be used on a macro_rules! macro")>>)>>

\* lib.rs:205
CfgDoc == <<Pound, Group("Bracket", <<Ident("cfg"), Group("Parenthesis", <<Ident("doc")>>)>>)>>
Transparency ==
    <<Pound, Group("Bracket", <<Ident("rustc_macro_transparency"), Punct("=", "Alone"),
                               Literal("semitransparent")>>)>>

\* lib.rs:228, lib.rs:250
CfgNotDoc ==
    <<Pound, Group("Bracket", <<Ident("cfg"),
         Group("Parenthesis", <<Ident("not"), Group("Parenthesis", <<Ident("doc")>>)>>)>>)>>

\* lib.rs:233
MacroExport == <<Pound, Group("Bracket", <<Ident("macro_export")>>)>>
DocHidden == <<Pound, Group("Bracket", <<Ident("doc"), Group("Parenthesis", <<Ident("hidden")>>)>>)>>

(***************************************************************************)
(* The tests of the parser.                                                *)
(***************************************************************************)
\* lib.rs:148
IsMacroRules(t) == t.k = "Ident" /\ t.s = "macro_rules"
\* lib.rs:152
IsHash(t) == t.k = "Punct" /\ t.c = "#"
\* lib.rs:153
IsBracketGroup(t) == t.k = "Group" /\ t.d = "Bracket"
\* lib.rs:163
IsBang(t) == t.k = "Punct" /\ t.c = "!"
\* lib.rs:168
IsIdent(t) == t.k = "Ident"
\* lib.rs:173
IsAnyGroup(t) == t.k = "Group"
IsBraceGroup(t) == t.k = "Group" /\ t.d = "Brace"

(***************************************************************************)
(* Code generation helpers.                                                *)
(***************************************************************************)
\* lib.rs:177-194
NeedMacroExport(at) == at = <<>>
PubOnly(at) == <<Ident("pub")>>
Vis(at) == IF at = <<>> THEN <<Ident("pub")>>
           ELSE <<Ident("pub"), Group("Parenthesis", at)>>

\* lib.rs:196-199
MacroRulesName(h, name) == Ident("macro_impl_" \o ToString(h) \o "_" \o name.s)

(***************************************************************************)
(* State of one macro_pub call (lib.rs:130-267): its arguments, its local  *)
(* variables and its position.  prev is a history variable: the result of  *)
(* the preceding call when that call was on the same item.                 *)
(***************************************************************************)
VARIABLES pc, has_simple_decl_macro, attr, item, hash, error_output, attrs,
          tokens, macro_rules, bang, macro_name, macro_arms, macro_rules_name,
          output, prev

rvars == <<pc, has_simple_decl_macro, attr, item, hash, error_output, attrs,
          tokens, macro_rules, bang, macro_name, macro_arms, macro_rules_name,
          output, prev>>

args == <<has_simple_decl_macro, attr, item, hash, error_output, prev>>

(***************************************************************************)
(* The build script (build.rs).  A probe is a frame of the thread that     *)
(* runs it; thread 0 is main, threads 1..NumCallers are other callers of   *)
(* AutoCfg::probe on a shared AutoCfg.                                     *)
(***************************************************************************)
VARIABLES env, bpc, ac, ID, frames, calls, stdout, stderr, probes, handed

bvars == <<env, bpc, ac, ID, frames, calls, stdout, stderr, probes, handed>>

vars == <<rvars, bvars>>

Main == 0
Callers == 1..NumCallers
Threads == {Main} \cup Callers

\* The unit separator, 0x1f (build.rs:152).
US == "0x1f"

\* Values of CARGO_ENCODED_RUSTFLAGS.
FlagValues == BoundedSeq({"a", US}, MaxFlagsLen)

\* The environment of the build script: OUT_DIR is unset, names nothing, names
\* a file, names a read-only directory or names a writable directory;
\* CARGO_ENCODED_RUSTFLAGS is unset, not valid Unicode or set to a value.
Envs == [out_dir : {"unset", "missing", "notdir", "readonly", "ok"},
         target : {"unset", "set"},
         flags : {[state |-> "unset", value |-> <<>>],
                  [state |-> "notunicode", value |-> <<>>]}
                 \cup {[state |-> "set", value |-> v] : v \in FlagValues}]

GoodEnv == [out_dir |-> "ok", target |-> "set",
            flags |-> [state |-> "set", value |-> <<"a", US>>]]

\* build.rs:152: a.split('\x1f')
RECURSIVE Split(_)
Split(a) ==
    IF \E i \in 1..Len(a) : a[i] = US
    THEN LET i == CHOOSE j \in 1..Len(a) : a[j] = US /\ \A n \in 1..(j - 1) : a[n] # US
         IN <<SubSeq(a, 1, i - 1)>> \o Split(SubSeq(a, i + 1, Len(a)))
    ELSE <<a>>

\* build.rs:142-156: the value of rustflags() when the variable is set.
rustflags(a) == IF a = <<>> THEN <<>> ELSE Split(a)

\* build.rs:148: env::var succeeds.
FlagsReadable(f) == f.state = "set"

\* build.rs:60-63, build.rs:82-85: OUT_DIR is set and names a writable directory.
AnyOutDir(d) == TRUE
OutDirUsable(d) == d = "ok"

\* build.rs:96, build.rs:98: probe(..).unwrap_or(false); build.rs:174: unwrap_or_default()
UnwrapOrTrue(r) == r # "ok_false"
UnwrapOrFalse(r) == r = "ok_true"

\* build.rs:111: the value fetch_add stores.
SameId(v) == v
FetchAdd(v) == v + 1

\* build.rs:165-172
FeatureSnippet == "#![feature(decl_macro, rustc_attrs)] pub macro m"
\* build.rs:132
NoStdPrefix == "#![no_std]"
\* build.rs:101
Warning == "warning: autocfg could not probe for std"

NoAutoCfg == [built |-> FALSE, out_dir |-> "", target |-> "", no_std |-> FALSE,
              rustflags |-> <<>>]

IdleFrame == [pc |-> "idle", id |-> 0, crate_name |-> "", code |-> "", no_std |-> FALSE,
              target |-> "", rustflags |-> <<>>, stdin |-> <<>>, exit |-> "none",
              result |-> "none"]

BuildIdle ==
    /\ env = GoodEnv
    /\ bpc = "off"
    /\ ac = NoAutoCfg
    /\ ID = 0
    /\ frames = [t \in Threads |-> IdleFrame]
    /\ calls = [t \in Threads |-> 0]
    /\ stdout = <<>>
    /\ stderr = <<>>
    /\ probes = <<>>
    /\ handed = <<>>

\* build.rs:108-127: entry of probe: the identifier and the command.
Enter(t, code) ==
    /\ frames[t].pc = "idle"
    /\ frames' = [frames EXCEPT ![t] =
                    [pc |-> "spawn", id |-> ID, crate_name |-> "probe" \o ToString(ID),
                     code |-> code, no_std |-> ac.no_std, target |-> ac.target,
                     rustflags |-> ac.rustflags, stdin |-> <<>>, exit |-> "none",
                     result |-> "none"]]
    /\ ID' = FetchAdd(ID)
    /\ handed' = Append(handed, ID)

\* build.rs:128: command.spawn()?
Spawn(t) ==
    /\ frames[t].pc = "spawn"
    /\ \E ok \in BOOLEAN :
         frames' = [frames EXCEPT ![t] =
                      IF ok THEN [@ EXCEPT !.pc = "write"]
                      ELSE [@ EXCEPT !.pc = "ret", !.result = "err"]]
    /\ UNCHANGED <<env, bpc, ac, ID, calls, stdout, stderr, probes, handed>>
    /\ UNCHANGED rvars

\* build.rs:129-135: the snippet is written to the child's stdin.
Write(t) ==
    /\ frames[t].pc = "write"
    /\ \E ok \in BOOLEAN :
         LET f == frames[t]
         IN frames' = [frames EXCEPT ![t] =
                         IF ok
                         THEN [f EXCEPT !.pc = "wait",
                                        !.stdin = IF f.no_std THEN <<NoStdPrefix, f.code>>
                                                  ELSE <<f.code>>]
                         ELSE [f EXCEPT !.pc = "ret", !.result = "err"]]
    /\ UNCHANGED <<env, bpc, ac, ID, calls, stdout, stderr, probes, handed>>
    /\ UNCHANGED rvars

\* build.rs:137-138: child.wait()?, status.success()
Wait(t) ==
    /\ frames[t].pc = "wait"
    /\ \E r \in {"err", "success", "failure"} :
         frames' = [frames EXCEPT ![t] =
                      [@ EXCEPT !.pc = "ret",
                                !.exit = IF r = "err" THEN "none" ELSE r,
                                !.result = CASE r = "err" -> "err"
                                             [] r = "success" -> "ok_true"
                                             [] OTHER -> "ok_false"]]
    /\ UNCHANGED <<env, bpc, ac, ID, calls, stdout, stderr, probes, handed>>
    /\ UNCHANGED rvars

\* build.rs:160
RerunPath ==
    /\ bpc = "start"
    /\ stdout' = Append(stdout, "cargo:rerun-if-changed=build.rs")
    /\ bpc' = "new"
    /\ UNCHANGED <<env, ac, ID, frames, calls, stderr, probes, handed>>
    /\ UNCHANGED rvars

\* build.rs:162, build.rs:46-48, build.rs:59-64, build.rs:74-93: autocfg::new()
\* up to the construction of the AutoCfg; unwrap panics on an error and
\* rustflags() panics when the variable cannot be read.
New ==
    /\ bpc = "new"
    /\ IF ~OutDirUsable(env.out_dir)
       THEN /\ bpc' = "panicked"
            /\ stderr' = Append(stderr, "called Result::unwrap() on an Err value")
            /\ UNCHANGED ac
       ELSE IF ~FlagsReadable(env.flags)
       THEN /\ bpc' = "panicked"
            /\ stderr' = Append(stderr, "expected CARGO_ENCODED_RUSTFLAGS")
            /\ UNCHANGED ac
       ELSE /\ ac' = [built |-> TRUE, out_dir |-> env.out_dir, target |-> env.target,
                      no_std |-> FALSE, rustflags |-> rustflags(env.flags.value)]
            /\ bpc' = "std"
            /\ UNCHANGED stderr
    /\ UNCHANGED <<env, ID, frames, calls, stdout, probes, handed>>
    /\ UNCHANGED rvars

\* build.rs:96, build.rs:98, build.rs:163-173: main calls probe.
MainCall ==
    /\ bpc \in {"std", "nostd", "feature"}
    /\ Enter(Main, IF bpc = "feature" THEN FeatureSnippet ELSE "")
    /\ bpc' = CASE bpc = "std" -> "std_ret"
                [] bpc = "nostd" -> "nostd_ret"
                [] OTHER -> "feature_ret"
    /\ UNCHANGED <<env, ac, calls, stdout, stderr, probes>>
    /\ UNCHANGED rvars

\* The probe of main returns: its frame is recorded and released.
MainReturn ==
    /\ frames[Main].pc = "ret"
    /\ probes' = Append(probes, frames[Main])
    /\ frames' = [frames EXCEPT ![Main] = IdleFrame]

\* build.rs:96-97: the check with std.
RetStd ==
    /\ bpc = "std_ret"
    /\ MainReturn
    /\ IF UnwrapOrFalse(frames[Main].result)
       THEN /\ bpc' = "feature"
            /\ UNCHANGED ac
       ELSE /\ ac' = [ac EXCEPT !.no_std = TRUE]
            /\ bpc' = "nostd"
    /\ UNCHANGED <<env, ID, calls, stdout, stderr, handed>>
    /\ UNCHANGED rvars

\* build.rs:98-105: the check without std.
RetNoStd ==
    /\ bpc = "nostd_ret"
    /\ MainReturn
    /\ IF UnwrapOrFalse(frames[Main].result)
       THEN UNCHANGED <<ac, stderr>>
       ELSE /\ ac' = [ac EXCEPT !.no_std = FALSE]
            /\ stderr' = Append(stderr, Warning)
    /\ bpc' = "feature"
    /\ UNCHANGED <<env, ID, calls, stdout, handed>>
    /\ UNCHANGED rvars

\* build.rs:163-177: the feature probe's result and the flag.
RetFeature ==
    /\ bpc = "feature_ret"
    /\ MainReturn
    /\ stdout' = IF UnwrapOrFalse(frames[Main].result)
                 THEN Append(stdout, "cargo:rustc-cfg=has_simple_decl_macro")
                 ELSE stdout
    /\ bpc' = "done"
    /\ UNCHANGED <<env, ac, ID, calls, stderr, handed>>
    /\ UNCHANGED rvars

\* A caller other than main starts a probe (build.rs:108).
CallerEnter(t) ==
    /\ calls[t] < MaxCalls
    /\ Enter(t, FeatureSnippet)
    /\ calls' = [calls EXCEPT ![t] = @ + 1]
    /\ UNCHANGED <<env, bpc, ac, stdout, stderr, probes>>
    /\ UNCHANGED rvars

\* A caller's probe returns (build.rs:128, build.rs:132, build.rs:134,
\* build.rs:137-138).
CallerReturn(t) ==
    /\ frames[t].pc = "ret"
    /\ frames' = [frames EXCEPT ![t] = IdleFrame]
    /\ UNCHANGED <<env, bpc, ac, ID, calls, stdout, stderr, probes, handed>>
    /\ UNCHANGED rvars

\* No call of macro_pub is running.
RewriterIdle(fl) ==
    /\ pc = "Start"
    /\ has_simple_decl_macro = fl
    /\ attr = <<>>
    /\ item = <<>>
    /\ hash = 0
    /\ error_output = <<>>
    /\ attrs = <<>>
    /\ tokens = <<>>
    /\ macro_rules = NoToken
    /\ bang = NoToken
    /\ macro_name = NoToken
    /\ macro_arms = <<>>
    /\ macro_rules_name = NoToken
    /\ output = <<>>
    /\ prev = <<>>

\* has_simple_decl_macro is cfg!(has_simple_decl_macro) (lib.rs:131): fixed
\* when the crate is built.
Init ==
    /\ \E fl \in BOOLEAN : RewriterIdle(fl)
    /\ BuildIdle

\* lib.rs:143
StaleAttrs == attrs
NewAttrs == <<>>

\* lib.rs:130-144: entry of macro_pub, up to the creation of the iterator.
Invoke(at, it) ==
    /\ pc \in {"Start", "Done", "Failed"}
    /\ prev' = IF pc # "Start" /\ it = item
               THEN <<[attr |-> attr, pc |-> pc, output |-> output,
                       macro_rules_name |-> macro_rules_name]>>
               ELSE <<>>
    /\ attr' = at
    /\ item' = it
    /\ hash' = ItemHash(it)
    /\ error_output' = it \o CompileError
    /\ attrs' = NewAttrs
    /\ tokens' = it
    /\ macro_rules' = NoToken
    /\ bang' = NoToken
    /\ macro_name' = NoToken
    /\ macro_arms' = <<>>
    /\ macro_rules_name' = NoToken
    /\ output' = <<>>
    /\ pc' = "CollectingAttrs"
    /\ UNCHANGED has_simple_decl_macro
    /\ UNCHANGED bvars

\* `return error_output`
Fail ==
    /\ output' = error_output
    /\ pc' = "Failed"

\* lib.rs:146-160: one iteration of the attribute loop.
CollectAttrs ==
    /\ pc = "CollectingAttrs"
    /\ IF tokens # <<>> /\ IsMacroRules(Head(tokens))
       THEN /\ macro_rules' = Head(tokens)
            /\ tokens' = Tail(tokens)
            /\ pc' = "SawKeyword"
            /\ UNCHANGED <<attrs, output>>
       ELSE IF tokens # <<>> /\ IsHash(Head(tokens))
       THEN IF Len(tokens) >= 2 /\ IsBracketGroup(tokens[2])
            THEN /\ attrs' = attrs \o <<tokens[1], tokens[2]>>
                 /\ tokens' = Tail(Tail(tokens))
                 /\ UNCHANGED <<pc, macro_rules, output>>
            ELSE /\ Fail
                 /\ tokens' = IF Len(tokens) >= 2 THEN Tail(Tail(tokens)) ELSE <<>>
                 /\ UNCHANGED <<attrs, macro_rules>>
       ELSE /\ Fail
            /\ tokens' = IF tokens # <<>> THEN Tail(tokens) ELSE <<>>
            /\ UNCHANGED <<attrs, macro_rules>>
    /\ UNCHANGED <<args, bang, macro_name, macro_arms, macro_rules_name>>
    /\ UNCHANGED bvars

\* lib.rs:162-165
ParseBang ==
    /\ pc = "SawKeyword"
    /\ IF tokens # <<>> /\ IsBang(Head(tokens))
       THEN /\ bang' = Head(tokens)
            /\ pc' = "SawBang"
            /\ UNCHANGED output
       ELSE /\ Fail
            /\ UNCHANGED bang
    /\ tokens' = IF tokens # <<>> THEN Tail(tokens) ELSE <<>>
    /\ UNCHANGED <<args, attrs, macro_rules, macro_name, macro_arms, macro_rules_name>>
    /\ UNCHANGED bvars

\* lib.rs:167-170
ParseName ==
    /\ pc = "SawBang"
    /\ IF tokens # <<>> /\ IsIdent(Head(tokens))
       THEN /\ macro_name' = Head(tokens)
            /\ pc' = "SawName"
            /\ UNCHANGED output
       ELSE /\ Fail
            /\ UNCHANGED macro_name
    /\ tokens' = IF tokens # <<>> THEN Tail(tokens) ELSE <<>>
    /\ UNCHANGED <<args, attrs, macro_rules, bang, macro_arms, macro_rules_name>>
    /\ UNCHANGED bvars

\* lib.rs:172-175
ParseArms ==
    /\ pc = "SawName"
    /\ IF tokens # <<>> /\ IsBraceGroup(Head(tokens))
       THEN /\ macro_arms' = Head(tokens).ts
            /\ pc' = "SawBody"
            /\ UNCHANGED output
       ELSE /\ Fail
            /\ UNCHANGED macro_arms
    /\ tokens' = IF tokens # <<>> THEN Tail(tokens) ELSE <<>>
    /\ UNCHANGED <<args, attrs, macro_rules, bang, macro_name, macro_rules_name>>
    /\ UNCHANGED bvars

\* lib.rs:218-223: the closure mapped over the top-level tokens of the arms.
RewriteArmAlone(tt) == IF tt.k = "Punct" /\ tt.c = ";" THEN Punct(",", "Alone") ELSE tt
RewriteArm(tt) == IF tt.k = "Punct" /\ tt.c = ";" THEN Punct(",", tt.sp) ELSE tt

\* lib.rs:215-224
RewriteArms(arms) == [i \in 1..Len(arms) |-> RewriteArm(arms[i])]

\* lib.rs:203-229: the documentation-only declaration and the guard of the
\* macro_rules! declaration that follows it.
DeclMacro(fl, at, as, name, arms) ==
    IF fl /\ NeedMacroExport(at)
    THEN CfgDoc \o Transparency \o Vis(at)
         \o <<Ident("macro"), name, Group("Brace", RewriteArms(arms))>>
         \o as \o CfgNotDoc
    ELSE <<>>

\* lib.rs:231-237
ExportAttrs(at) == IF NeedMacroExport(at) THEN MacroExport \o DocHidden ELSE <<>>

\* lib.rs:241-245
DeclName(at, impl, name) == IF NeedMacroExport(at) THEN impl ELSE name

\* lib.rs:249-251
NoUseGuard(fl, at) == <<>>
UseGuard(fl, at) == IF fl /\ NeedMacroExport(at) THEN CfgNotDoc ELSE <<>>

\* lib.rs:256-260
UseOriginal(at, impl, name) == name
UseTarget(at, impl, name) == IF NeedMacroExport(at) THEN impl ELSE name

\* lib.rs:265
DropRest(ts) == <<>>
Rest(ts) == ts

\* lib.rs:177-267: code generation after a successful parse.
Generate ==
    /\ pc = "SawBody"
    /\ LET impl == MacroRulesName(hash, macro_name)
       IN /\ macro_rules_name' = impl
          /\ output' = attrs
                        \o DeclMacro(has_simple_decl_macro, attr, attrs, macro_name, macro_arms)
                        \o ExportAttrs(attr)
                        \o <<macro_rules, bang, DeclName(attr, impl, macro_name),
                              Group("Brace", macro_arms)>>
                        \o UseGuard(has_simple_decl_macro, attr)
                        \o Vis(attr)
                        \o <<Ident("use"), UseTarget(attr, impl, macro_name), Ident("as"),
                              macro_name, Punct(";", "Alone")>>
                        \o Rest(tokens)
    /\ pc' = "Done"
    /\ UNCHANGED <<args, attrs, tokens, macro_rules, bang, macro_name, macro_arms>>
    /\ UNCHANGED bvars

Next ==
    \/ \E at \in AttrArgs :
          \E it \in (IF pc = "Start" THEN Items ELSE {item} \cup FollowUps) : Invoke(at, it)
    \/ CollectAttrs
    \/ ParseBang
    \/ ParseName
    \/ ParseArms
    \/ Generate

Spec == Init /\ [][Next]_vars

TypeOK == pc \in {"Start", "CollectingAttrs", "SawKeyword", "SawBang", "SawName", "SawBody",
                  "Done", "Failed"}
(***************************************************************************)
(* The shape of an item, read off the item itself.                         *)
(***************************************************************************)
RECURSIVE LeadingAttrs(_)
LeadingAttrs(it) ==
    IF /\ Len(it) >= 2
       /\ it[1].k = "Punct" /\ it[1].c = "#"
       /\ it[2].k = "Group" /\ it[2].d = "Bracket"
    THEN <<it[1], it[2]>> \o LeadingAttrs(SubSeq(it, 3, Len(it)))
    ELSE <<>>

Definition(it) == SubSeq(it, Len(LeadingAttrs(it)) + 1, Len(it))

WellFormed(it) ==
    LET d == Definition(it)
    IN /\ Len(d) >= 4
       /\ d[1] = Ident("macro_rules")
       /\ d[2].k = "Punct" /\ d[2].c = "!"
       /\ d[3].k = "Ident"
       /\ d[4].k = "Group" /\ d[4].d = "Brace"

KeywordOf(it) == Definition(it)[1]
BangOf(it) == Definition(it)[2]
NameOf(it) == Definition(it)[3]
ArmsOf(it) == Definition(it)[4].ts
TrailingOf(it) == SubSeq(Definition(it), 5, Len(Definition(it)))

\* macro_impl_<fingerprint>_<name>
InternalName(it) ==
    Ident("macro_impl_" \o ToString(xxh3_128(to_string(it))) \o "_" \o NameOf(it).s)

Returned == pc \in {"Done", "Failed"}

(***************************************************************************)
(* The items of an output: each is a run of attributes followed by a       *)
(* macro_rules! declaration, a `macro` declaration or a `use`.             *)
(***************************************************************************)
RECURSIVE OutAttrs(_)
OutAttrs(ts) ==
    IF /\ Len(ts) >= 2
       /\ ts[1].k = "Punct" /\ ts[1].c = "#"
       /\ ts[2].k = "Group" /\ ts[2].d = "Bracket"
    THEN <<ts[2]>> \o OutAttrs(SubSeq(ts, 3, Len(ts)))
    ELSE <<>>

\* The visibility in front of an item: `pub` or `pub ( .. )`.
VisLen(ts) ==
    IF Len(ts) >= 1 /\ ts[1] = Ident("pub")
    THEN IF Len(ts) >= 2 /\ ts[2].k = "Group" /\ ts[2].d = "Parenthesis" THEN 2 ELSE 1
    ELSE 0

RECURSIVE SplitItems(_)
SplitItems(ts) ==
    IF ts = <<>> THEN <<>>
    ELSE
      LET as == OutAttrs(ts)
          b == SubSeq(ts, 2 * Len(as) + 1, Len(ts))
          v == VisLen(b)
          r == SubSeq(b, v + 1, Len(b))
      IN IF /\ v = 0 /\ Len(r) >= 4
            /\ r[1] = Ident("macro_rules")
            /\ r[2].k = "Punct" /\ r[2].c = "!"
            /\ r[3].k = "Ident"
            /\ r[4].k = "Group" /\ r[4].d = "Brace"
         THEN <<[kind |-> "macro_rules", attrs |-> as, vis |-> <<>>, name |-> r[3],
                 target |-> r[3], body |-> r[4].ts]>>
              \o SplitItems(SubSeq(r, 5, Len(r)))
         ELSE IF /\ v > 0 /\ Len(r) >= 3
                 /\ r[1] = Ident("macro")
                 /\ r[2].k = "Ident"
                 /\ r[3].k = "Group" /\ r[3].d = "Brace"
         THEN <<[kind |-> "macro", attrs |-> as, vis |-> SubSeq(b, 1, v), name |-> r[2],
                 target |-> r[2], body |-> r[3].ts]>>
              \o SplitItems(SubSeq(r, 4, Len(r)))
         ELSE IF /\ v > 0 /\ Len(r) >= 5
                 /\ r[1] = Ident("use")
                 /\ r[2].k = "Ident"
                 /\ r[3] = Ident("as")
                 /\ r[4].k = "Ident"
                 /\ r[5] = Punct(";", "Alone")
         THEN <<[kind |-> "use", attrs |-> as, vis |-> SubSeq(b, 1, v), name |-> r[4],
                 target |-> r[2], body |-> <<>>]>>
              \o SplitItems(SubSeq(r, 6, Len(r)))
         ELSE <<[kind |-> "other", attrs |-> as, vis |-> <<>>, name |-> NoToken,
                 target |-> NoToken, body |-> ts]>>

\* The output without the trailing tokens of the item.
Generated == SubSeq(output, 1, Len(output) - Len(TrailingOf(item)))

OutItems == SplitItems(Generated)

\* An item is active when none of its cfg guards is false; doc is the
\* documentation-build condition.  Other attributes do not guard.
Active(i, doc) ==
    \A n \in 1..Len(i.attrs) :
        /\ i.attrs[n] = CfgDoc[2] => doc
        /\ i.attrs[n] = CfgNotDoc[2] => ~doc
(***************************************************************************)
(* Properties of the rewriter (specification Spec).                        *)
(***************************************************************************)

\* C1: macro_pub returns exactly the item followed by the compile_error
\* marker if and only if the item does not start with attribute pairs,
\* `macro_rules`, `!`, an identifier and a brace group; otherwise it returns
\* generated code.
FailClosed ==
    Returned =>
        /\ (output = item \o CompileError) <=> ~WellFormed(item)
        /\ (pc = "Failed") <=> ~WellFormed(item)

\* The body was reached and was not a brace group.
FailClosedWitness ==
    /\ pc = "Failed"
    /\ macro_name # NoToken
    /\ Len(item) >= 4
    /\ output = item \o CompileError

ExportOutput ==
    (pc = "Done" /\ attr = <<>> /\ ~has_simple_decl_macro) =>
        output = LeadingAttrs(item)
                 \o MacroExport \o DocHidden
                 \o <<KeywordOf(item), BangOf(item), InternalName(item),
                       Group("Brace", ArmsOf(item))>>
                 \o <<Ident("pub"), Ident("use"), InternalName(item), Ident("as"),
                       NameOf(item), Punct(";", "Alone")>>
                 \o TrailingOf(item)

ExportWitness ==
    /\ pc = "Done"
    /\ attr = <<>>
    /\ ~has_simple_decl_macro
    /\ attrs # <<>>
    /\ tokens # <<>>

\* C4: with an empty attr and the flag set the output is three items: the
\* `pub macro name` declaration guarded by cfg(doc), and the macro_rules!
\* declaration and the `pub use` each guarded by cfg(not(doc)); for either
\* value of the documentation-build condition all items of one variant are
\* active and none of the other.
VariantsExclusive ==
    (pc = "Done" /\ attr = <<>> /\ has_simple_decl_macro) =>
        LET its == OutItems
        IN /\ Len(its) = 3
           /\ its[1].kind = "macro" /\ its[1].name = NameOf(item)
           /\ its[1].vis = <<Ident("pub")>>
           /\ its[2].kind = "macro_rules" /\ its[2].name = InternalName(item)
           /\ its[3].kind = "use" /\ its[3].name = NameOf(item)
           /\ \E n \in 1..Len(its[1].attrs) : its[1].attrs[n] = CfgDoc[2]
           /\ \E n \in 1..Len(its[2].attrs) : its[2].attrs[n] = CfgNotDoc[2]
           /\ \E n \in 1..Len(its[3].attrs) : its[3].attrs[n] = CfgNotDoc[2]
           /\ \A doc \in BOOLEAN :
                 /\ Active(its[1], doc) <=> doc
                 /\ Active(its[2], doc) <=> ~doc
                 /\ Active(its[3], doc) <=> ~doc

VariantsWitness ==
    /\ pc = "Done"
    /\ attr = <<>>
    /\ has_simple_decl_macro
    /\ attrs # <<>>
    /\ Len(OutItems) = 3

\* C5: the body of the `macro` declaration is the arms with every top-level
\* `;` replaced by `,` of the same spacing and every other top-level token
\* unchanged; the arms of the macro_rules! declaration are not rewritten.
SeparatorRewrite ==
    (pc = "Done" /\ attr = <<>> /\ has_simple_decl_macro) =>
        LET arms == ArmsOf(item)
            alt == OutItems[1].body
        IN /\ OutItems[1].kind = "macro"
           /\ Len(alt) = Len(arms)
           /\ \A n \in 1..Len(arms) :
                 IF arms[n].k = "Punct" /\ arms[n].c = ";"
                 THEN alt[n] = Punct(",", arms[n].sp)
                 ELSE alt[n] = arms[n]
           /\ OutItems[2].kind = "macro_rules"
           /\ OutItems[2].body = arms

\* A body with a joint top-level `;` and a group that holds a `;`.
SeparatorWitness ==
    /\ pc = "Done"
    /\ attr = <<>>
    /\ has_simple_decl_macro
    /\ \E n \in 1..Len(macro_arms) : macro_arms[n] = Punct(";", "Joint")
    /\ \E n \in 1..Len(macro_arms) : macro_arms[n].k = "Group"
    /\ \E n \in 1..Len(OutItems[1].body) : OutItems[1].body[n] = Punct(",", "Joint")

\* C6: after a successful rewrite, for either value of the documentation-build
\* condition, the active items bind the original name: an active `use X as
\* name` whose target X is declared by an active macro_rules!, or an active
\* `macro name` declaration.
NamePreserved ==
    pc = "Done" =>
        \A doc \in BOOLEAN :
            LET its == OutItems
                live == {n \in 1..Len(its) : Active(its[n], doc)}
            IN \/ \E u \in live, d \in live :
                    /\ its[u].kind = "use"
                    /\ its[u].name = NameOf(item)
                    /\ its[d].kind = "macro_rules"
                    /\ its[d].name = its[u].target
               \/ \E m \in live :
                    /\ its[m].kind = "macro"
                    /\ its[m].name = NameOf(item)

\* The renaming path: the `use` refers to the internal name.
NamePreservedWitness ==
    /\ pc = "Done"
    /\ attr = <<>>
    /\ \E n \in 1..Len(OutItems) :
          OutItems[n].kind = "use" /\ OutItems[n].target = InternalName(item)

\* C7: a call that repeats the preceding call's item and attr returns the
\* same output, the internal name is computed from the whole item, and two
\* calls on the same item agree on it whatever attr is.
Deterministic ==
    Returned =>
        /\ (prev # <<>> /\ prev[1].attr = attr) =>
               (prev[1].pc = pc /\ prev[1].output = output)
        /\ pc = "Done" => macro_rules_name = InternalName(item)
        /\ (prev # <<>> /\ pc = "Done") => prev[1].macro_rules_name = macro_rules_name

\* A second call on an item with leading attributes and trailing tokens.
DeterministicWitness ==
    /\ pc = "Done"
    /\ prev # <<>>
    /\ prev[1].attr = attr
    /\ attrs # <<>>
    /\ tokens # <<>>
(***************************************************************************)
(* The build script from its start, in every environment.                  *)
(***************************************************************************)
BuildInit ==
    /\ RewriterIdle(FALSE)
    /\ env \in Envs
    /\ bpc = "start"
    /\ ac = NoAutoCfg
    /\ ID = 0
    /\ frames = [t \in Threads |-> IdleFrame]
    /\ calls = [t \in Threads |-> 0]
    /\ stdout = <<>>
    /\ stderr = <<>>
    /\ probes = <<>>
    /\ handed = <<>>

BuildNext ==
    \/ RerunPath
    \/ New
    \/ MainCall
    \/ Spawn(Main)
    \/ Write(Main)
    \/ Wait(Main)
    \/ RetStd
    \/ RetNoStd
    \/ RetFeature

BuildSpec == BuildInit /\ [][BuildNext]_vars

(***************************************************************************)
(* Concurrent callers of AutoCfg::probe on one AutoCfg.                    *)
(***************************************************************************)
ProbeInit ==
    /\ RewriterIdle(FALSE)
    /\ env = GoodEnv
    /\ bpc = "off"
    /\ ac = [built |-> TRUE, out_dir |-> "ok", target |-> "set", no_std |-> FALSE,
             rustflags |-> rustflags(GoodEnv.flags.value)]
    /\ ID = 0
    /\ frames = [t \in Threads |-> IdleFrame]
    /\ calls = [t \in Threads |-> 0]
    /\ stdout = <<>>
    /\ stderr = <<>>
    /\ probes = <<>>
    /\ handed = <<>>

ProbeNext ==
    \E t \in Callers :
        \/ CallerEnter(t)
        \/ Spawn(t)
        \/ Write(t)
        \/ Wait(t)
        \/ CallerReturn(t)

ProbeSpec == ProbeInit /\ [][ProbeNext]_vars
(***************************************************************************)
(* Properties of the build script (specification BuildSpec).               *)
(***************************************************************************)
FlagLine == "cargo:rustc-cfg=has_simple_decl_macro"
Emitted == \E n \in 1..Len(stdout) : stdout[n] = FlagLine

\* A probe succeeded when its subprocess exited successfully; a probe that
\* errored has no exit status.
Succeeded(f) == f.exit = "success"

\* The completed probes of the empty snippet and of the feature snippet.
SanityProbes == SelectSeq(probes, LAMBDA f : f.code = "")
FeatureProbes == SelectSeq(probes, LAMBDA f : f.code = FeatureSnippet)

SelfCheckDone == bpc \in {"feature", "feature_ret", "done"}

BadEnv == env.out_dir # "ok" \/ env.flags.state # "set"

\* The feature probe failed and the script completed.
FailedProbeDone ==
    /\ bpc = "done"
    /\ Len(FeatureProbes) = 1
    /\ ~Succeeded(FeatureProbes[1])

ModeRule ==
    LET S == SanityProbes
        F == IF bpc = "done" THEN FeatureProbes[1] ELSE frames[Main]
    IN /\ Len(S) >= 1
       /\ ~S[1].no_std /\ S[1].stdin \in {<<>>, <<"">>}
       /\ Len(S) >= 2 => (S[2].no_std /\ S[2].stdin \in {<<>>, <<NoStdPrefix, "">>})
       /\ ac.no_std <=> (Len(S) >= 2 /\ ~Succeeded(S[1]) /\ Succeeded(S[2]))
       /\ stderr = IF Len(S) >= 2 /\ ~Succeeded(S[1]) /\ ~Succeeded(S[2])
                   THEN <<Warning>> ELSE <<>>
       /\ bpc = "done" => (Len(FeatureProbes) = 1 /\ probes[Len(probes)] = F)
       /\ bpc # "done" => FeatureProbes = <<>>
       /\ bpc \in {"feature_ret", "done"} =>
             /\ F.code = FeatureSnippet
             /\ F.no_std = ac.no_std
             /\ F.stdin \in {<<>>, IF ac.no_std THEN <<NoStdPrefix, FeatureSnippet>>
                                     ELSE <<FeatureSnippet>>}
             /\ (F.pc = "wait" \/ F.exit # "none") => F.stdin # <<>>
       /\ bpc = "done" => (Emitted <=> Succeeded(F))

\* C9 as stated: the self-check runs the empty snippet in both modes.
SelfCheckRunsBoth ==
    SelfCheckDone => (Len(SanityProbes) = 2 /\ ModeRule)

\* C9, amended: the self-check runs the empty snippet in full-runtime mode
\* and, only when that failed, in no-runtime mode; the rest is as stated.
SelfCheckDecidesMode ==
    SelfCheckDone =>
        /\ Len(SanityProbes) \in {1, 2}
        /\ Len(SanityProbes) = 2 <=> ~Succeeded(SanityProbes[1])
        /\ ModeRule

\* An erroring first probe, no-runtime mode, and the flag emitted.
SelfCheckWitness ==
    /\ bpc = "done"
    /\ ac.no_std
    /\ SanityProbes[1].result = "err"
    /\ FeatureProbes[1].stdin = <<NoStdPrefix, FeatureSnippet>>
    /\ Emitted

(***************************************************************************)
(* Properties of concurrent probes (specification ProbeSpec).              *)
(***************************************************************************)

\* C10: the identifiers handed out are 0, 1, 2, ... in the order of the
\* calls, the counter is the number of calls made so far, failed or not, and
\* no two probes have the same identifier or crate name.
UniqueIds ==
    /\ \A n \in 1..Len(handed) : handed[n] = n - 1
    /\ ID = Len(handed)
    /\ \A t \in Threads :
          frames[t].pc # "idle" =>
             /\ \E n \in 1..Len(handed) : handed[n] = frames[t].id
             /\ frames[t].crate_name = "probe" \o ToString(frames[t].id)
    /\ \A t, u \in Threads :
          (t # u /\ frames[t].pc # "idle" /\ frames[u].pc # "idle") =>
             /\ frames[t].id # frames[u].id
             /\ frames[t].crate_name # frames[u].crate_name

\* A probe that follows an erroring one runs beside another probe.
UniqueIdsWitness ==
    \E t, u \in Callers :
        /\ t # u
        /\ calls[t] = 2 /\ frames[t].pc = "wait"
        /\ frames[u].pc = "ret" /\ frames[u].result = "err"
        /\ frames[t].id > frames[u].id
        /\ Len(handed) = 3

====
